---------------------------- MODULE Spec2Model ----------------------------
(* Model of src/main.py: the FastAPI WebSocket endpoint (websocket_endpoint),    *)
(* the research runs it starts in the background                                  *)
(* (RealTimeResearchTeam.conduct_realtime_research) and the agent coroutine       *)
(* (RealTimeResearchAgent.research_async).                                        *)
(*                                                                                *)
(* One connection is modelled: session_id is a uuid4, so connections never share  *)
(* a key of active_sessions.  asyncio runs one coroutine at a time, and another   *)
(* one can run only where a coroutine awaits; every action below is the code      *)
(* between two awaits.  A send on the websocket succeeds while the client is      *)
(* connected and the endpoint is running, and raises afterwards.  Strings are     *)
(* tuples of their parts.  The "run" field of a sent message is a label of the    *)
(* model (the real messages carry only session_id and agent_id).  The focus       *)
(* text is interpolated into the queries beside the topic and decides nothing     *)
(* else; the queries here are built from the topic.                               *)
EXTENDS Naturals, Sequences, FiniteSets, Bags, TLC

\* ------------------------------------------------------------------ bounds
\* Spec: the client starts up to MaxRuns runs with up to MaxMsgs frames.
MaxRuns == 2
MaxMsgs == 2
\* SingleSpec and OpenSpec: up to MaxSingleRuns runs, MaxSingleMsgs frames.
MaxSingleRuns == 1
MaxSingleMsgs == 1
\* frames the client has sent and the receive loop has not taken yet
MaxInbox == 1

Runs == 1..MaxRuns
Topics == {"t1"}
InvokeExceptions == {"timeout"}

\* ------------------------------------------------------------- the program
session_id == "sid"

Phase1Agents == {"researcher", "analyst", "news_tracker"}
AgentIds == Phase1Agents \cup {"synthesizer"}

AgentName(a) ==
  CASE a = "researcher" -> "Primary Researcher"
    [] a = "analyst" -> "Data Analyst"
    [] a = "news_tracker" -> "News Tracker"
    [] a = "synthesizer" -> "Information Synthesizer"

\* A piece of text: what kind it is and what it was built from.
Str(kind, agent, r, arg) == [kind |-> kind, agent |-> agent, run |-> r, arg |-> arg]
Text(t) == Str("text", "", 0, t)

NoData == Text("No data")
NoValue == Str("none", "", 0, "")

VARIABLES
  inbox,            \* frames the client has sent and receive_text has not returned yet
  nSent,            \* how many frames the client has sent
  closed,           \* the client has disconnected
  epPc,             \* websocket_endpoint: "receiving", "disconnected", "error"
  active_sessions,  \* research_team.active_sessions
  numRuns,          \* conduct_realtime_research tasks created so far
  runPc,            \* where each run is
  runTopic,         \* the topic argument of each run
  synthesis_query,  \* the local synthesis_query of each run
  agPc,             \* where each research_async call of each run is
  agRes,            \* what it returned
  sent              \* bag of the messages sent on the websocket

vars == <<inbox, nSent, closed, epPc, active_sessions, numRuns, runPc, runTopic,
          synthesis_query, agPc, agRes, sent>>

endpointVars == <<inbox, nSent, closed, epPc>>
runVars == <<numRuns, runPc, runTopic, synthesis_query>>
agentVars == <<agPc, agRes>>

\* A message of the protocol, as json.dumps gets it.
Msg(type, r, a, body) == [type |-> type, run |-> r, agent_id |-> a, body |-> body]
NoAgent == ""

Count(m) == CopiesIn(m, sent)

\* websocket_endpoint has returned (the server then closes the connection).
EndpointOver == epPc \in {"disconnected", "error"}

\* websocket.send_text returns; otherwise it raises.
SendOk == ~closed /\ ~EndpointOver

Send(m) == sent' = sent (+) SetToBag({m})

\* result["output"]: what agent a's invoke returned in run r (every call of the
\* language model has an answer of its own)
Output(r, a) == Str("output", a, r, "")

\* error_msg = f"Error in {self.name}: {str(e)}"
ErrorMsg(a, e) == Str("Error in", AgentName(a), 0, e)

\* dict.get(key, default)
Get(d, k, default) == IF k \in DOMAIN d THEN d[k] ELSE default

\* the f-string of synthesis_query
SynthesisQuery(topic, results) ==
  [topic |-> topic,
   Background |-> Get(results, "researcher", NoData),
   Analysis |-> Get(results, "analyst", NoData),
   News |-> Get(results, "news_tracker", NoData)]

\* synthesis_query before it is assigned
NoQuery == [topic |-> "", Background |-> NoValue, Analysis |-> NoValue, News |-> NoValue]

Finished == {"returned", "raised"}

Init ==
  /\ inbox = <<>>
  /\ nSent = 0
  /\ closed = FALSE
  /\ epPc = "receiving"
  /\ active_sessions = [s \in {} |-> NoValue]
  /\ numRuns = 0
  /\ runPc = [r \in Runs |-> "none"]
  /\ runTopic = [r \in Runs |-> ""]
  /\ synthesis_query = [r \in Runs |-> NoQuery]
  /\ agPc = [r \in Runs |-> [a \in AgentIds |-> "none"]]
  /\ agRes = [r \in Runs |-> [a \in AgentIds |-> NoValue]]
  /\ sent = EmptyBag

\* ------------------------------------------------------------- the client
ClientFrames ==
  [type : {"start_research"}, topic : Topics \cup {""}]
    \cup [type : {"ping", "other", "malformed"}, topic : {""}]

StartsSent ==
  numRuns + Cardinality({i \in 1..Len(inbox) :
                           inbox[i].type = "start_research" /\ inbox[i].topic # ""})

\* The client sends frame m, one of at most maxMsgs frames, which start at most
\* maxRuns runs.
ClientSendUpTo(m, maxRuns, maxMsgs) ==
  /\ ~closed
  /\ ~EndpointOver
  /\ nSent < maxMsgs
  /\ Len(inbox) < MaxInbox
  /\ (m.type = "start_research" /\ m.topic # "") => StartsSent < maxRuns
  /\ inbox' = Append(inbox, m)
  /\ nSent' = nSent + 1
  /\ UNCHANGED <<closed, epPc, active_sessions, runVars, agentVars, sent>>

ClientSend(m) == ClientSendUpTo(m, MaxRuns, MaxMsgs)

ClientSendSingle(m) == ClientSendUpTo(m, MaxSingleRuns, MaxSingleMsgs)

ClientClose ==
  /\ ~closed
  /\ closed' = TRUE
  /\ UNCHANGED <<inbox, nSent, epPc, active_sessions, runVars, agentVars, sent>>

\* ------------------------------------------------------ websocket_endpoint
\* except WebSocketDisconnect
OnDisconnect ==
  /\ epPc' = "disconnected"
  /\ active_sessions' =
       [s \in DOMAIN active_sessions \ {session_id} |-> active_sessions[s]]

\* except Exception
OnException ==
  /\ epPc' = "error"
  /\ UNCHANGED active_sessions

\* A send of the receive loop: it returns, or raises WebSocketDisconnect or
\* another exception (which of the two is the server library's choice).
EndpointSend(m) ==
  IF SendOk
    THEN Send(m) /\ UNCHANGED <<epPc, active_sessions>>
    ELSE UNCHANGED sent /\ (OnDisconnect \/ OnException)

\* asyncio.create_task(research_team.conduct_realtime_research(...))
CreateRun(topic) ==
  /\ numRuns' = numRuns + 1
  /\ runPc' = [runPc EXCEPT ![numRuns + 1] = "created"]
  /\ runTopic' = [runTopic EXCEPT ![numRuns + 1] = topic]
  /\ UNCHANGED <<synthesis_query, epPc, active_sessions, sent>>

\* (mutant) the topic is not checked.
HandleStartResearchNoCheck(m) == CreateRun(m.topic)

\* (mutant) the run is awaited in the receive loop.
HandleStartResearchAwait(m) ==
  IF m.topic = ""
    THEN /\ EndpointSend(Msg("error", 0, NoAgent, Text("Topic is required")))
         /\ UNCHANGED runVars
    ELSE /\ numRuns' = numRuns + 1
         /\ runPc' = [runPc EXCEPT ![numRuns + 1] = "created"]
         /\ runTopic' = [runTopic EXCEPT ![numRuns + 1] = m.topic]
         /\ epPc' = "awaiting"
         /\ UNCHANGED <<synthesis_query, active_sessions, sent>>

HandleStartResearch(m) ==
  IF m.topic = ""
    THEN /\ EndpointSend(Msg("error", 0, NoAgent, Text("Topic is required")))
         /\ UNCHANGED runVars
    ELSE CreateRun(m.topic)

HandlePing ==
  /\ EndpointSend(Msg("pong", 0, NoAgent, Text("timestamp")))
  /\ UNCHANGED runVars

\* One turn of the loop for a frame receive_text returns.
ReceiveMessage ==
  /\ epPc = "receiving"
  /\ inbox # <<>>
  /\ inbox' = Tail(inbox)
  /\ LET m == Head(inbox) IN
       CASE m.type = "start_research" -> HandleStartResearch(m)
         [] m.type = "ping" -> HandlePing
         [] m.type = "malformed" -> OnException /\ UNCHANGED <<runVars, sent>>
         [] OTHER -> UNCHANGED <<epPc, active_sessions, runVars, sent>>
  /\ UNCHANGED <<nSent, closed, agentVars>>

\* receive_text raises WebSocketDisconnect.
ReceiveDisconnect ==
  /\ epPc = "receiving"
  /\ inbox = <<>>
  /\ closed
  /\ OnDisconnect
  /\ UNCHANGED <<inbox, nSent, closed, runVars, agentVars, sent>>

\* ---------------------------------------------- research_async (one call)
\* (mutant) the handler sends agent_error and raises again.
AgentExceptReraise(r, a, e) ==
  /\ IF SendOk THEN Send(Msg("agent_error", r, a, ErrorMsg(a, e))) ELSE UNCHANGED sent
  /\ agPc' = [agPc EXCEPT ![r][a] = "raised"]
  /\ UNCHANGED agRes

\* except Exception as e: send agent_error, return error_msg.  When the send in
\* the handler raises, the exception leaves research_async.
AgentExcept(r, a, e) ==
  IF SendOk
    THEN /\ Send(Msg("agent_error", r, a, ErrorMsg(a, e)))
         /\ agPc' = [agPc EXCEPT ![r][a] = "returned"]
         /\ agRes' = [agRes EXCEPT ![r][a] = ErrorMsg(a, e)]
    ELSE /\ agPc' = [agPc EXCEPT ![r][a] = "raised"]
         /\ UNCHANGED <<agRes, sent>>

\* Notify start, then await asyncio.to_thread(self.agent.invoke, ...).
AgentStart(r, a) ==
  /\ agPc[r][a] = "ready"
  /\ IF SendOk
       THEN /\ Send(Msg("agent_status", r, a, Text("researching")))
            /\ agPc' = [agPc EXCEPT ![r][a] = "invoking"]
            /\ UNCHANGED agRes
       ELSE AgentExcept(r, a, "send failed")
  /\ UNCHANGED <<endpointVars, active_sessions, runVars>>

\* agent.invoke returned: send research_result.
InvokeReturns(r, a) ==
  /\ agPc[r][a] = "invoking"
  /\ IF SendOk
       THEN /\ Send(Msg("research_result", r, a, Output(r, a)))
            /\ agPc' = [agPc EXCEPT ![r][a] = "sentResult"]
            /\ UNCHANGED agRes
       ELSE AgentExcept(r, a, "send failed")
  /\ UNCHANGED <<endpointVars, active_sessions, runVars>>

\* agent.invoke raised e.
InvokeRaises(r, a, e) ==
  /\ agPc[r][a] = "invoking"
  /\ AgentExcept(r, a, e)
  /\ UNCHANGED <<endpointVars, active_sessions, runVars>>

\* Notify completion, return result["output"].
AgentComplete(r, a) ==
  /\ agPc[r][a] = "sentResult"
  /\ IF SendOk
       THEN /\ Send(Msg("agent_status", r, a, Text("completed")))
            /\ agPc' = [agPc EXCEPT ![r][a] = "returned"]
            /\ agRes' = [agRes EXCEPT ![r][a] = Output(r, a)]
       ELSE AgentExcept(r, a, "send failed")
  /\ UNCHANGED <<endpointVars, active_sessions, runVars>>

\* ------------------------------------- conduct_realtime_research (one run)
\* except Exception as e: send research_error.  When that send raises, the
\* exception leaves the task.
ResearchExcept(r, e) ==
  IF SendOk
    THEN /\ Send(Msg("research_error", r, NoAgent, Text(e)))
         /\ runPc' = [runPc EXCEPT ![r] = "error"]
    ELSE /\ runPc' = [runPc EXCEPT ![r] = "failed"]
         /\ UNCHANGED sent

\* The task starts: initialize the session, send research_started.
RunStart(r) ==
  /\ runPc[r] = "created"
  /\ active_sessions' =
       [s \in DOMAIN active_sessions \cup {session_id} |->
          IF s = session_id
            THEN [topic |-> runTopic[r], results |-> [a \in {} |-> NoValue]]
            ELSE active_sessions[s]]
  /\ IF SendOk
       THEN /\ Send(Msg("research_started", r, NoAgent, Text(runTopic[r])))
            /\ runPc' = [runPc EXCEPT ![r] = "started"]
       ELSE ResearchExcept(r, "send failed")
  /\ UNCHANGED <<endpointVars, numRuns, runTopic, synthesis_query, agentVars>>

\* Create the three tasks and await asyncio.gather(*tasks, return_exceptions=True).
RunFanOut(r) ==
  /\ runPc[r] = "started"
  /\ agPc' = [agPc EXCEPT ![r] =
                [a \in AgentIds |-> IF a \in Phase1Agents THEN "ready" ELSE @[a]]]
  /\ runPc' = [runPc EXCEPT ![r] = "gather"]
  /\ UNCHANGED <<endpointVars, active_sessions, numRuns, runTopic, synthesis_query,
                 agRes, sent>>

\* (mutant) gather returns as soon as one task is over.
GatherDoneFirstCompleted(r) == \E a \in Phase1Agents : agPc[r][a] \in Finished

\* gather returns when every task has returned or raised.
GatherDone(r) == \A a \in Phase1Agents : agPc[r][a] \in Finished

\* for i, agent_id in enumerate(research_tasks.keys()): store what is no Exception
StoreResults(results, r) ==
  LET mine == {a \in Phase1Agents : agPc[r][a] = "returned"} IN
    [a \in DOMAIN results \cup mine |-> IF a \in mine THEN agRes[r][a] ELSE results[a]]

\* What the tasks of run r returned is read for the last time.
Collected(r) == agRes' = [agRes EXCEPT ![r] = [a \in AgentIds |-> NoValue]]

\* (mutant) gather without return_exceptions=True: a task's exception is raised
\* in the run.
RunJoinRaising(r) ==
  /\ runPc[r] = "gather"
  /\ GatherDone(r)
  /\ IF session_id \in DOMAIN active_sessions
          /\ \A a \in Phase1Agents : agPc[r][a] # "raised"
       THEN LET stored == StoreResults(active_sessions[session_id].results, r) IN
              /\ active_sessions' =
                   [active_sessions EXCEPT ![session_id].results = stored]
              /\ synthesis_query' =
                   [synthesis_query EXCEPT ![r] = SynthesisQuery(runTopic[r], stored)]
              /\ agPc' = [agPc EXCEPT ![r] = [a \in AgentIds |->
                            IF a = "synthesizer" THEN "ready" ELSE "joined"]]
              /\ Collected(r)
              /\ runPc' = [runPc EXCEPT ![r] = "synth"]
              /\ UNCHANGED sent
       ELSE /\ ResearchExcept(r, "task exception")
            /\ agPc' = [agPc EXCEPT ![r] = [a \in AgentIds |->
                          IF @[a] \in Finished THEN "joined" ELSE @[a]]]
            /\ Collected(r)
            /\ UNCHANGED <<active_sessions, synthesis_query>>
  /\ UNCHANGED <<endpointVars, numRuns, runTopic>>

\* After gather: store the results, build synthesis_query, call the synthesizer.
RunJoin(r) ==
  /\ runPc[r] = "gather"
  /\ GatherDone(r)
  /\ IF session_id \in DOMAIN active_sessions
       THEN LET stored == StoreResults(active_sessions[session_id].results, r) IN
              /\ active_sessions' =
                   [active_sessions EXCEPT ![session_id].results = stored]
              /\ synthesis_query' =
                   [synthesis_query EXCEPT ![r] = SynthesisQuery(runTopic[r], stored)]
              /\ agPc' = [agPc EXCEPT ![r] = [a \in AgentIds |->
                            IF a = "synthesizer" THEN "ready"
                            ELSE IF @[a] \in Finished THEN "joined" ELSE @[a]]]
              /\ Collected(r)
              /\ runPc' = [runPc EXCEPT ![r] = "synth"]
              /\ UNCHANGED sent
       ELSE /\ ResearchExcept(r, "KeyError")
            /\ agPc' = [agPc EXCEPT ![r] = [a \in AgentIds |->
                          IF @[a] \in Finished THEN "joined" ELSE @[a]]]
            /\ Collected(r)
            /\ UNCHANGED <<active_sessions, synthesis_query>>
  /\ UNCHANGED <<endpointVars, numRuns, runTopic>>

\* (mutant) the run ends without its completion notification.
RunSynthDoneSilent(r) ==
  /\ runPc[r] = "synth"
  /\ agPc[r]["synthesizer"] \in Finished
  /\ IF agPc[r]["synthesizer"] = "raised" \/ session_id \notin DOMAIN active_sessions
       THEN ResearchExcept(r, "KeyError") /\ UNCHANGED active_sessions
       ELSE /\ active_sessions' =
                 [active_sessions EXCEPT ![session_id].results =
                    [a \in DOMAIN @ \cup {"synthesizer"} |->
                       IF a = "synthesizer" THEN agRes[r][a] ELSE @[a]]]
            /\ runPc' = [runPc EXCEPT ![r] = "done"]
            /\ UNCHANGED sent
  /\ agPc' = [agPc EXCEPT ![r]["synthesizer"] = "joined"]
  /\ Collected(r)
  /\ UNCHANGED <<endpointVars, numRuns, runTopic, synthesis_query>>

\* The synthesizer's research_async is over: store its result, send research_completed.
RunSynthDone(r) ==
  /\ runPc[r] = "synth"
  /\ agPc[r]["synthesizer"] \in Finished
  /\ IF agPc[r]["synthesizer"] = "raised"
       THEN ResearchExcept(r, "send failed") /\ UNCHANGED active_sessions
       ELSE IF session_id \notin DOMAIN active_sessions
         THEN ResearchExcept(r, "KeyError") /\ UNCHANGED active_sessions
         ELSE /\ active_sessions' =
                   [active_sessions EXCEPT ![session_id].results =
                      [a \in DOMAIN @ \cup {"synthesizer"} |->
                         IF a = "synthesizer" THEN agRes[r][a] ELSE @[a]]]
              /\ IF SendOk
                   THEN /\ Send(Msg("research_completed", r, NoAgent,
                                    Text("All research completed successfully")))
                        /\ runPc' = [runPc EXCEPT ![r] = "done"]
                   ELSE ResearchExcept(r, "send failed")
  /\ agPc' = [agPc EXCEPT ![r]["synthesizer"] = "joined"]
  /\ Collected(r)
  /\ UNCHANGED <<endpointVars, numRuns, runTopic, synthesis_query>>

\* ------------------------------------------------------------ the system
AgentStep(r, a) ==
  \/ AgentStart(r, a)
  \/ InvokeReturns(r, a)
  \/ \E e \in InvokeExceptions : InvokeRaises(r, a, e)
  \/ AgentComplete(r, a)

RunStep(r) ==
  \/ RunStart(r)
  \/ RunFanOut(r)
  \/ RunJoin(r)
  \/ RunSynthDone(r)

Next ==
  \/ \E m \in ClientFrames : ClientSend(m)
  \/ ClientClose
  \/ ReceiveMessage
  \/ ReceiveDisconnect
  \/ \E r \in Runs : RunStep(r)
  \/ \E r \in Runs, a \in AgentIds : AgentStep(r, a)

Spec == Init /\ [][Next]_vars

\* A step of some task of the server.
ServerStep ==
  \/ \E r \in Runs : RunStep(r)
  \/ \E r \in Runs, a \in AgentIds : AgentStep(r, a)

\* The system with a client that starts at most MaxSingleRuns runs.
NextSingle ==
  \/ \E m \in ClientFrames : ClientSendSingle(m)
  \/ ClientClose
  \/ ReceiveMessage
  \/ ReceiveDisconnect
  \/ ServerStep

SingleSpec == Init /\ [][NextSingle]_vars

\* The same while the client stays connected and sends frames the receive loop
\* can parse: every send succeeds.
NextOpen ==
  \/ \E m \in ClientFrames : m.type # "malformed" /\ ClientSendSingle(m)
  \/ ReceiveMessage
  \/ ServerStep

\* The event loop does not stop while a task can run, and every agent.invoke
\* ends: some task that can take a step takes one.
Fairness == WF_vars(ServerStep)

OpenSpec == Init /\ [][NextOpen]_vars /\ Fairness

\* ------------------------------------------------------------ the claims
\* how many messages of a type were sent for agent a of run r
CountType(t, r, a) ==
  LET S == {m \in BagToSet(sent) : m.type = t /\ m.run = r /\ m.agent_id = a} IN
    BagCardinality([m \in S |-> sent[m]])

StatusCount(r, a, status) == Count(Msg("agent_status", r, a, Text(status)))

RunInProgress(r) == runPc[r] \in {"created", "started", "gather", "synth"}

\* the receive loop takes the frame at the head of the inbox
Handles(type) ==
  /\ epPc = "receiving"
  /\ inbox # <<>>
  /\ Head(inbox).type = type
  /\ Len(inbox') < Len(inbox)

\* C1: the synthesizer of a run is started (its research_async is entered, its
\* 'researching' status is sent, its agent is invoked) only when the researcher,
\* the analyst and the news_tracker of that run have each returned or raised.
C1_SynthesisAfterJoin ==
  \A r \in Runs :
    (agPc[r]["synthesizer"] # "none" \/ StatusCount(r, "synthesizer", "researching") > 0)
      => \A a \in Phase1Agents : agPc[r][a] \in Finished \cup {"joined"}

C1_Witness ==
  \E r \in Runs :
    /\ agPc[r]["synthesizer"] = "invoking"
    /\ StatusCount(r, "synthesizer", "researching") = 1
    /\ \A a \in Phase1Agents : agPc[r][a] = "joined"

\* what run r's own agent a contributes to the query: its returned string, or
\* 'No data' when its task ended with an exception
OwnResult(r, a) == IF agPc[r][a] = "returned" THEN agRes[r][a] ELSE NoData

\* C2: the synthesis query a run builds holds, in Background, Analysis and News,
\* the strings its own researcher, analyst and news_tracker returned, and
\* 'No data' exactly for an agent whose task ended with an exception.
C2_QueryHoldsOwnResults ==
  [][\A r \in Runs :
       (runPc[r] = "gather" /\ runPc'[r] = "synth")
         => synthesis_query'[r] =
              [topic |-> runTopic[r],
               Background |-> OwnResult(r, "researcher"),
               Analysis |-> OwnResult(r, "analyst"),
               News |-> OwnResult(r, "news_tracker")]]_vars

\* before agent.invoke ends, a call has sent nothing but its 'researching' status
NothingSentYet(r, a) ==
  /\ CountType("agent_error", r, a) = 0
  /\ CountType("research_result", r, a) = 0
  /\ StatusCount(r, a, "completed") = 0

\* C3 as claimed: in the step in which agent.invoke raises e, research_async
\* sends one agent_error carrying 'Error in <name>: <e>' and returns that text,
\* and no research_result or 'completed' status is sent for that call.
C3_NeverRaises ==
  [][\A r \in Runs, a \in AgentIds, e \in InvokeExceptions :
       InvokeRaises(r, a, e)
         => /\ agPc'[r][a] = "returned"
            /\ agRes'[r][a] = ErrorMsg(a, e)
            /\ sent' = sent (+) SetToBag({Msg("agent_error", r, a, ErrorMsg(a, e))})
            /\ NothingSentYet(r, a)]_vars

\* C3 as amended: a call whose agent.invoke has not ended has sent no
\* agent_error, research_result or 'completed' status; in the step in which
\* agent.invoke raises e, if the agent_error send succeeds exactly that one
\* message, carrying 'Error in <name>: <e>', is sent and research_async returns
\* that text; if that send raises (the connection is closed), nothing is sent
\* and the exception leaves research_async.
C3_ErrorStringWhenSendSucceeds ==
  /\ [](\A r \in Runs, a \in AgentIds : agPc[r][a] = "invoking" => NothingSentYet(r, a))
  /\ [][\A r \in Runs, a \in AgentIds, e \in InvokeExceptions :
          InvokeRaises(r, a, e)
            => IF SendOk
                 THEN /\ agPc'[r][a] = "returned"
                      /\ agRes'[r][a] = ErrorMsg(a, e)
                      /\ sent' = sent (+)
                                   SetToBag({Msg("agent_error", r, a, ErrorMsg(a, e))})
                 ELSE /\ agPc'[r][a] = "raised"
                      /\ sent' = sent]_vars

C3_Witness ==
  \E r \in Runs, a \in Phase1Agents :
    /\ agPc[r][a] = "returned"
    /\ agRes[r][a] = ErrorMsg(a, "timeout")
    /\ CountType("agent_error", r, a) = 1
    /\ Count(Msg("agent_error", r, a, ErrorMsg(a, "timeout"))) = 1
    /\ CountType("research_result", r, a) = 0
    /\ StatusCount(r, a, "completed") = 0

\* C4: research_completed is sent for a run only if no agent_error was sent in
\* that run.
C4_CompletedOnlyWithoutErrors ==
  \A r \in Runs :
    CountType("research_completed", r, NoAgent) > 0
      => \A a \in AgentIds : CountType("agent_error", r, a) = 0

TopicRequired == Msg("error", 0, NoAgent, Text("Topic is required"))

EmptyTopicHandled == Handles("start_research") /\ Head(inbox).topic = ""

Pong == Msg("pong", 0, NoAgent, Text("timestamp"))

\* C6 as claimed: a ping handled while a run is in progress is answered with a
\* pong.
C6_PingAnsweredDuringRun ==
  [][((\E r \in Runs : RunInProgress(r)) /\ Handles("ping"))
       => sent' = sent (+) SetToBag({Pong})]_vars

\* C6 as amended: while a run is in progress the receive loop is not waiting
\* for it: it takes the next frame as soon as there is one; a ping handled
\* while the client is connected is answered with a pong and leaves the runs
\* alone, and a start_research with a topic creates a further run.
C6_ReceiveLoopNotBlocked ==
  /\ []((~EndpointOver /\ inbox # <<>> /\ \E r \in Runs : RunInProgress(r))
          => ENABLED ReceiveMessage)
  /\ [][((\E r \in Runs : RunInProgress(r)) /\ Handles("ping") /\ SendOk)
          => /\ sent' = sent (+) SetToBag({Pong})
             /\ runVars' = runVars
             /\ epPc' = "receiving"]_vars
  /\ [][((\E r \in Runs : RunInProgress(r)) /\ Handles("start_research")
            /\ Head(inbox).topic # "")
          => /\ numRuns' = numRuns + 1
             /\ runPc' = [runPc EXCEPT ![numRuns + 1] = "created"]
             /\ epPc' = "receiving"]_vars

C6_Witness ==
  /\ numRuns = 2
  /\ RunInProgress(1)
  /\ runPc[1] # "created"
  /\ RunInProgress(2)
  /\ epPc = "receiving"

\* C7: once the WebSocketDisconnect handler has run, active_sessions holds no
\* entry for the connection's session_id.
C7_NoSessionAfterDisconnect ==
  epPc = "disconnected" => session_id \notin DOMAIN active_sessions

Terminals(r) ==
  CountType("research_completed", r, NoAgent) + CountType("research_error", r, NoAgent)

\* C8: while the connection stays open and every agent.invoke ends, a run never
\* sends more than one terminal message (research_completed or research_error),
\* and every run that was started ends having sent exactly one.
C8_ExactlyOneTerminal ==
  /\ [](\A r \in Runs : Terminals(r) <= 1)
  /\ \A r \in Runs :
       (runPc[r] = "created")
         ~> (runPc[r] \in {"done", "error"} /\ Terminals(r) = 1)

C8_Witness ==
  \E r \in Runs :
    /\ runPc[r] = "done"
    /\ SendOk
    /\ CountType("research_completed", r, NoAgent) = 1
    /\ CountType("research_error", r, NoAgent) = 0

Running == {"ready", "invoking", "sentResult"}

\* agent a of run r ends in failure in this step
Fails(r, a) ==
  /\ agPc[r][a] \in Running
  /\ agPc'[r][a] \in Finished
  /\ (agPc'[r][a] = "raised" \/ agRes'[r][a].kind = "Error in")

\* C9 as claimed: once the tasks of a run were collected, its synthesizer has
\* been called.
C9_SynthesizerAlwaysCalled ==
  \A r \in Runs :
    (\E a \in Phase1Agents : agPc[r][a] = "joined") => agPc[r]["synthesizer"] # "none"

\* C9 as amended: a run that waits in gather has created all three tasks; the
\* failure of one agent changes neither the other two tasks nor the run, and a
\* task that is not over can always go on; when all three are over the run goes
\* on whatever their outcomes, and calls the synthesizer's research_async if
\* active_sessions still holds the session (and fails with KeyError if not); the
\* synthesizer's agent is invoked when its 'researching' send succeeds.
C9_Phase1Independent ==
  /\ [](\A r \in Runs :
          /\ runPc[r] = "gather" => \A a \in Phase1Agents : agPc[r][a] # "none"
          /\ \A a \in AgentIds : agPc[r][a] \in Running => ENABLED AgentStep(r, a)
          /\ (runPc[r] = "gather" /\ GatherDone(r)) => ENABLED RunJoin(r))
  /\ [][\A r \in Runs, a \in Phase1Agents :
          Fails(r, a) => /\ \A b \in Phase1Agents \ {a} : agPc'[r][b] = agPc[r][b]
                         /\ runPc'[r] = runPc[r]]_vars
  /\ [][\A r \in Runs :
          (runPc[r] = "gather" /\ runPc'[r] # "gather")
            => /\ GatherDone(r)
               /\ IF session_id \in DOMAIN active_sessions
                    THEN runPc'[r] = "synth" /\ agPc'[r]["synthesizer"] = "ready"
                    ELSE runPc'[r] \in {"error", "failed"}
                           /\ agPc'[r]["synthesizer"] = "none"]_vars
  /\ [][\A r \in Runs :
          (agPc[r]["synthesizer"] = "ready" /\ agPc'[r]["synthesizer"] # "ready")
            => agPc'[r]["synthesizer"] = (IF SendOk THEN "invoking" ELSE "raised")]_vars

C9_Witness ==
  \E r \in Runs :
    /\ CountType("agent_error", r, "researcher") = 1
    /\ StatusCount(r, "analyst", "completed") = 1
    /\ StatusCount(r, "news_tracker", "completed") = 1
    /\ agPc[r]["synthesizer"] = "invoking"
    /\ synthesis_query[r].Background = ErrorMsg("researcher", "timeout")
=============================================================================
